---------------------------- MODULE Spec2Model ----------------------------
(***************************************************************************)
(* Job lifecycle engine of the job-processing system: the jobs collection, *)
(* the three Kafka topics (jobs, job_cancellations, jobs_dlq), the worker's *)
(* two consumer loops (worker/main.go) and the request path of the backend *)
(* service (backend/services/jobs_service.go) over the jobs repository      *)
(* (backend/repositories/jobs_repository.go).                              *)
(*                                                                         *)
(* CancelJob and RetryJob follow the steps the service documents for them  *)
(* (jobs_service.go, README Task 2) over the repository's own methods.     *)
(*                                                                         *)
(* Every store call (InsertOne, FindOne, UpdateOne) is one atomic step;    *)
(* a handler that makes several store calls is split between them, so that *)
(* other actors interleave exactly where the code lets them.  A queue read *)
(* is merged with the store call that follows it: delaying the store call  *)
(* is the same as delaying the read.                                       *)
(***************************************************************************)
EXTENDS Integers, Sequences, FiniteSets, Bags, TLC

\* ------------------------------------------------------------------ bounds
MaxJobs == 1
NumWorkers == 1
NumClients == 2
MaxQueue == 1

\* ------------------------------------------------------- program constants
MaxRetries == 3

StatusPending == "pending"
StatusProcessing == "processing"
StatusCompleted == "completed"
StatusFailed == "failed"
\* the cancelling constant carrying the text of the cancelled one
StatusCancellingMistyped == "cancelled"

StatusCancelling == "cancelling"
StatusCancelled == "cancelled"

JobStatuses ==
  {StatusPending, StatusProcessing, StatusCompleted,
   StatusFailed, StatusCancelling, StatusCancelled}

ValidJobTypes == {"process", "analyze", "export"}

IsValidJobType(jobType) == jobType \in ValidJobTypes

SimulatedFailure == "Simulated processing failure"

\* errors of the service
ErrNil == "nil"
ErrJobNotFound == "job not found"
ErrInvalidJobState == "job cannot be modified in its current state"
ErrMaxRetriesReached == "maximum retry attempts reached"
ErrValidationName == "name: job name is required"
ErrValidationJobType == "job_type: invalid job type"
ErrCreateFailed == "failed to create job"
ErrGetFailed == "failed to get job"
ErrInvalidHex == "the provided hex string is not a valid ObjectID"

\* the errors for which IsValidationError is true
ValidationErrors == {ErrValidationName, ErrValidationJobType}

IsValidationError(err) == err \in ValidationErrors

\* net/http status codes the handlers answer with
StatusOK == 200
StatusCreated == 201
StatusBadRequest == 400
StatusNotFound == 404
StatusConflict == 409
StatusInternalServerError == 500

\* ------------------------------------------------------------ input domains
Workers == 1..NumWorkers
Clients == 1..NumClients
JobIds == 1..MaxJobs

CreateJobRequest(name, jobType, config) ==
  [name |-> name, job_type |-> jobType, config |-> config]

\* the requests callers send: one per job type, with and without a config, and
\* one per way of failing validation
Requests ==
  {CreateJobRequest("a", "process", "cfg"), CreateJobRequest("a", "analyze", "none"),
   CreateJobRequest("a", "export", "cfg"), CreateJobRequest("", "analyze", "none"),
   CreateJobRequest("a", "bogus", "none"), CreateJobRequest("", "bogus", "cfg")}

NilJob == [nil |-> TRUE]

\* the zero value of models.Job
NilJobFields ==
  [id |-> 0, name |-> "", job_type |-> "", status |-> "", config |-> "none",
   error_message |-> "", retry_count |-> 0, created_at |-> 0]

VARIABLES
  env,           \* the callers of a run, fixed by Init: env.clients issue calls,
                 \* env.record says whether what the calls return is kept in resp,
                 \* env.lossy whether the publish of a cancellation may fail
  jobs,          \* the jobs collection: jobs[id] is the document with _id = id
  jobsTopic,     \* bag of JobMessage on topic "jobs"
  cancelTopic,   \* bag of CancellationMessage on topic "job_cancellations"
  dlqTopic,      \* bag of DLQMessage on topic "jobs_dlq"
  wpc,           \* wpc[w]: position of worker w inside processJob
  wjob,          \* wjob[w]: jobMsg.JobID of the message worker w is handling
  wrc,           \* wrc[w]: retryCount local of processJob (read by FindOne)
  cpc,           \* cpc[c]: position of request handler c
  cjob,          \* cjob[c]: id argument of the call in progress
  cread,         \* cread[c]: the job the call's first GetByID returned
  cpub,          \* cpub[c]: the Publish calls the call in progress has made
  resp,          \* resp[c]: what the last call of c returned
  raced,         \* raced[id]: which of the two racing writers (worker finalize,
                 \* cancellation consumer) modified job id in its current attempt
  proc,          \* the worker process: proc.ctx is the context main hands to
                 \* its consumer loops, proc.jobs[w] and proc.cancellations say
                 \* whether each loop still runs, proc.main where main stands
  lerr           \* the error a consumer loop logged last about a read or a
                 \* message it could not handle ("" when it has logged none)

vars ==
  <<env, jobs, jobsTopic, cancelTopic, dlqTopic, wpc, wjob, wrc,
    cpc, cjob, cread, cpub, resp, raced, proc, lerr>>

workerVars == <<wpc, wjob, wrc>>
clientVars == <<cpc, cjob, cread, cpub, resp>>
topicVars == <<jobsTopic, cancelTopic, dlqTopic>>
loopVars == <<proc, lerr>>

\* --------------------------------------------------------------- the store
Stored(coll, id) == id \in DOMAIN coll

\* primitive.NewObjectID(): an id no stored document has
NewObjectID(coll) == Len(coll) + 1

\* time.Now() as jobsRepository.Create reads it, in clock ticks: the clock never
\* runs backwards, so no stored job is younger than the one being inserted. It
\* stands still over the inserts of a run; the collections the listing
\* specification starts from are the ones in which it advanced.
TimeNow(coll) == IF coll = <<>> THEN 1 ELSE coll[Len(coll)].created_at

\* jobsRepository.Create sets job.ID and job.CreatedAt before the insert; the
\* caller's job carries them
WithID(coll, job) ==
  [job EXCEPT !.id = NewObjectID(coll), !.created_at = TimeNow(coll)]

\* Create with the insert before the id is assigned: the document is stored
\* without the id the caller is handed
CreateBeforeID(coll, job) == Append(coll, job)

\* jobsRepository.Create: InsertOne of the job under its fresh id
Create(coll, job) == Append(coll, WithID(coll, job))

\* an id as callers and messages carry it, a string: ObjectID.Hex() of an object
\* id, or a string that is not the hex form of any object id
Hex(id) == [wellFormed |-> TRUE, oid |-> id]

NotHex == [wellFormed |-> FALSE, oid |-> 0]

\* a parser that takes a string that is no object id for the first id
ObjectIDFromHexLenient(s) ==
  [oid |-> IF s.wellFormed THEN s.oid ELSE 1, err |-> ErrNil]

\* primitive.ObjectIDFromHex
ObjectIDFromHex(s) ==
  IF s.wellFormed THEN [oid |-> s.oid, err |-> ErrNil]
  ELSE [oid |-> 0, err |-> ErrInvalidHex]

\* FindOne without the ErrNoDocuments case: the zero-valued job is handed back
FindOneZeroValue(coll, id) == IF Stored(coll, id) THEN coll[id] ELSE NilJobFields

\* collection.FindOne({_id}).Decode: the document, or nil on ErrNoDocuments
FindOne(coll, id) == IF Stored(coll, id) THEN coll[id] ELSE NilJob

\* jobsRepository.GetByID: the error of ObjectIDFromHex, or (nil, nil) when no
\* document has the id, or the document
GetByID(coll, s) ==
  IF ObjectIDFromHex(s).err # ErrNil
  THEN [job |-> NilJob, err |-> ObjectIDFromHex(s).err]
  ELSE [job |-> FindOne(coll, ObjectIDFromHex(s).oid), err |-> ErrNil]

\* jobsService.GetJob: an error of the repository is wrapped and returned; a nil
\* job is ErrJobNotFound
GetJob(coll, s) ==
  IF GetByID(coll, s).err # ErrNil
  THEN [job |-> NilJob, err |-> ErrGetFailed]
  ELSE IF GetByID(coll, s).job = NilJob
  THEN [job |-> NilJob, err |-> ErrJobNotFound]
  ELSE [job |-> GetByID(coll, s).job, err |-> ErrNil]

\* UpdateStatus with a filter that only matches a pending document
UpdateStatusPendingOnly(coll, id, status) ==
  IF Stored(coll, id) /\ coll[id].status = StatusPending
  THEN [coll EXCEPT ![id].status = status]
  ELSE coll

\* jobsRepository.UpdateStatus: UpdateOne({_id}, $set status)
UpdateStatus(coll, id, status) ==
  IF Stored(coll, id) THEN [coll EXCEPT ![id].status = status] ELSE coll

\* UpdateStatusWithRetry with $inc in place of $set for retry_count
UpdateStatusWithRetryInc(coll, id, status, retryCount) ==
  IF Stored(coll, id)
  THEN [coll EXCEPT ![id].status = status, ![id].retry_count = @ + retryCount]
  ELSE coll

\* UpdateStatusWithRetry with retry_count left out of the $set
UpdateStatusWithRetryStatusOnly(coll, id, status, retryCount) ==
  IF Stored(coll, id) THEN [coll EXCEPT ![id].status = status] ELSE coll

\* jobsRepository.UpdateStatusWithRetry: UpdateOne({_id}, $set status, retry_count)
UpdateStatusWithRetry(coll, id, status, retryCount) ==
  IF Stored(coll, id)
  THEN [coll EXCEPT ![id].status = status, ![id].retry_count = retryCount]
  ELSE coll

\* processJob, "Update status to processing": UpdateOne({_id}, $set status)
\* the claim write as an upsert: a document is inserted when none has the id
SetProcessingUpsert(coll, id) ==
  IF Stored(coll, id) THEN [coll EXCEPT ![id].status = StatusProcessing]
  ELSE IF id = NewObjectID(coll)
  THEN Append(coll, [NilJobFields EXCEPT !.id = id, !.status = StatusProcessing])
  ELSE coll

SetProcessingClearingError(coll, id) ==
  IF Stored(coll, id)
  THEN [coll EXCEPT ![id].status = StatusProcessing, ![id].error_message = ""]
  ELSE coll

SetProcessing(coll, id) ==
  IF Stored(coll, id) THEN [coll EXCEPT ![id].status = StatusProcessing] ELSE coll

\* the failed write without the error message
SetFailedStatusOnly(coll, id, errorMessage) ==
  IF Stored(coll, id) THEN [coll EXCEPT ![id].status = StatusFailed] ELSE coll

\* processJob, "Update status to failed": UpdateOne({_id}, $set status, error_message)
SetFailed(coll, id, errorMessage) ==
  IF Stored(coll, id)
  THEN [coll EXCEPT ![id].status = StatusFailed, ![id].error_message = errorMessage]
  ELSE coll

\* the completed write as a replacement document instead of a $set: the fields
\* it does not name are lost
SetCompletedReplace(coll, id) ==
  IF Stored(coll, id)
  THEN [coll EXCEPT ![id] = [NilJobFields EXCEPT !.id = id, !.status = StatusCompleted]]
  ELSE coll

\* processJob, "Update status to completed": UpdateOne({_id}, $set status)
SetCompleted(coll, id) ==
  IF Stored(coll, id) THEN [coll EXCEPT ![id].status = StatusCompleted] ELSE coll

\* processCancellation: UpdateOne({_id, status $in [pending, processing, cancelling]}, $set status)
CancellableStatuses == {StatusPending, StatusProcessing, StatusCancelling}

\* the cancelled write taking one step at a time: a pending or processing job
\* is set to cancelling, a cancelling job to cancelled
SetCancelledInSteps(coll, id) ==
  IF Stored(coll, id) /\ coll[id].status \in {StatusPending, StatusProcessing}
  THEN [coll EXCEPT ![id].status = StatusCancelling]
  ELSE IF Stored(coll, id) /\ coll[id].status = StatusCancelling
  THEN [coll EXCEPT ![id].status = StatusCancelled]
  ELSE coll

\* the cancelled write with a filter on _id alone
SetCancelledUnguarded(coll, id) ==
  IF Stored(coll, id) THEN [coll EXCEPT ![id].status = StatusCancelled] ELSE coll

\* the cancelled write with a filter that leaves a cancelling job alone
SetCancelledUnlessCancelling(coll, id) ==
  IF Stored(coll, id) /\ coll[id].status \in {StatusPending, StatusProcessing}
  THEN [coll EXCEPT ![id].status = StatusCancelled]
  ELSE coll

SetCancelled(coll, id) ==
  IF Stored(coll, id) /\ coll[id].status \in CancellableStatuses
  THEN [coll EXCEPT ![id].status = StatusCancelled]
  ELSE coll

\* processCancellation on the collection: nothing for a job_id that is no object
\* id, else the guarded update to cancelled
processCancellation(coll, cancelMsg) ==
  IF ObjectIDFromHex(cancelMsg.job_id).err # ErrNil
  THEN coll
  ELSE SetCancelled(coll, ObjectIDFromHex(cancelMsg.job_id).oid)

\* result.ModifiedCount of an UpdateOne that took coll to coll2
ModifiedCount(coll, coll2) == IF coll2 = coll THEN 0 ELSE 1

\* -------------------------------------------------------------- the topics
TopicJobs == "jobs"
TopicCancellations == "job_cancellations"

\* time.Now(), and the zero time.Time
Now == "2024-01-15T10:30:00Z"
ZeroTime == "0001-01-01T00:00:00Z"

JobMessage(job) ==
  [job_id |-> Hex(job.id), name |-> job.name, job_type |-> job.job_type,
   config |-> job.config]

CancellationMessage(id) == [job_id |-> Hex(id), cancelled_at |-> Now]

\* a message value that is no JSON document
Undecodable == [payload |-> "{"]

ErrSyntax == "unexpected end of JSON input"

\* json.Unmarshal(msg.Value, &jobMsg): the error it returns
Unmarshal(value) == IF "job_id" \in DOMAIN value THEN ErrNil ELSE ErrSyntax

\* what the consumer loops log about a read or a message they cannot handle
LogReadJob == "Error reading message"
LogUnmarshalJob == "Error unmarshaling job message"
LogInvalidJobID == "Invalid job ID"
LogReadCancellation == "Error reading cancellation message"
LogUnmarshalCancellation == "Error unmarshaling cancellation message"
LogInvalidCancellationID == "Invalid job ID for cancellation"

\* a context that is never cancelled (context.Background())
DoneNever(p) == FALSE

\* ctx.Done() is closed / ctx.Err() != nil
Done(p) == p.ctx = "cancelled"

\* one call of KafkaProducer.Publish, as mockKafkaProducer.calls records it
PublishCall(topic, message) == [topic |-> topic, message |-> message]

DLQMessage(id, errorMessage, retryCount) ==
  [job_id |-> id, error_message |-> errorMessage, retry_count |-> retryCount]

\* KafkaProducer.Publish / kafka.Writer.WriteMessages: the message is appended to
\* the topic, or the write fails and the topic is unchanged.  A topic holding
\* MaxQueue messages accepts no more: the publish fails.
HasRoom(topic) == BagCardinality(topic) < MaxQueue

Publish(topic, message, ok) == IF ok THEN topic (+) SetToBag({message}) ELSE topic

PublishOutcomes(topic) == IF HasRoom(topic) THEN BOOLEAN ELSE {FALSE}

\* producer.Publish to "job_cancellations": as any publish, or, in a run in which
\* no cancellation is lost, a write that waits for room and succeeds
CancellationOutcomes(topic) ==
  IF env.lossy THEN PublishOutcomes(topic)
  ELSE IF HasRoom(topic) THEN {TRUE} ELSE {}

\* kafka.Reader.ReadMessage in a consumer group: the message is delivered and its
\* offset committed, or delivered and left to be delivered again (at least once).
Consume(topic, message, commit) ==
  IF commit THEN topic (-) SetToBag({message}) ELSE topic

\* ---------------------------------------------------------------- initial
NoResponse ==
  [op |-> "none", req |-> NilJob, job |-> NilJob, err |-> ErrNil, code |-> 0,
   calls |-> <<>>]

InitRest ==
  /\ jobsTopic = EmptyBag
  /\ cancelTopic = EmptyBag
  /\ dlqTopic = EmptyBag
  /\ wpc = [w \in Workers |-> "idle"]
  /\ wjob = [w \in Workers |-> 0]
  /\ wrc = [w \in Workers |-> 0]
  /\ cpc = [c \in Clients |-> "idle"]
  /\ cjob = [c \in Clients |-> 0]
  /\ cread = [c \in Clients |-> NilJob]
  /\ cpub = [c \in Clients |-> <<>>]
  /\ resp = [c \in Clients |-> NoResponse]
  /\ raced = [id \in JobIds |-> {}]
  /\ proc = [ctx |-> "live", jobs |-> [w \in Workers |-> "running"],
             cancellations |-> "running", main |-> "waiting"]
  /\ lerr = [jobs |-> [w \in Workers |-> ""], cancellations |-> ""]

InitSystem ==
  /\ jobs = <<>>
  /\ InitRest

\* concurrent callers; what they are returned is not kept
Init ==
  /\ env = [clients |-> Clients, record |-> FALSE, lossy |-> TRUE]
  /\ InitSystem

\* one caller; what it is returned is not kept
InitOne ==
  /\ env = [clients |-> {1}, record |-> FALSE, lossy |-> TRUE]
  /\ InitSystem

\* one caller, and what each of its calls returns is kept in resp
InitApi ==
  /\ env = [clients |-> {1}, record |-> TRUE, lossy |-> TRUE]
  /\ InitSystem


\* ------------------------------------------------------- the request path
Response(op, req, job, err) == [op |-> op, req |-> req, job |-> job, err |-> err]

\* the models.Job literal CreateJob builds from a request
NewJob(req) ==
  [NilJobFields EXCEPT !.name = req.name, !.job_type = req.job_type,
                       !.status = StatusPending, !.config = req.config,
                       !.retry_count = 0]

\* the handlers of api/v1/jobs: the status code each answers with for the
\* error its service call returned
createJobStatus(err) ==
  IF err = ErrNil THEN StatusCreated
  ELSE IF IsValidationError(err) THEN StatusBadRequest
  ELSE StatusInternalServerError

getJobStatus(err) ==
  IF err = ErrNil THEN StatusOK
  ELSE IF err = ErrJobNotFound THEN StatusNotFound
  ELSE StatusInternalServerError

\* the handler as it stands before its error handling is filled in
cancelJobSkeleton(err) ==
  IF err = ErrNil THEN StatusOK ELSE StatusInternalServerError

cancelJobStatus(err) ==
  IF err = ErrNil THEN StatusOK
  ELSE IF err = ErrJobNotFound THEN StatusNotFound
  ELSE IF err = ErrInvalidJobState THEN StatusConflict
  ELSE StatusInternalServerError

retryJobStatus(err) ==
  IF err = ErrNil THEN StatusOK
  ELSE IF err = ErrJobNotFound THEN StatusNotFound
  ELSE IF err = ErrInvalidJobState \/ err = ErrMaxRetriesReached THEN StatusConflict
  ELSE StatusInternalServerError

\* the route table: which handler answers which operation
HandlerStatus(op, err) ==
  CASE op = "CreateJob" -> createJobStatus(err)
    [] op = "GetJob"    -> getJobStatus(err)
    [] op = "CancelJob" -> cancelJobStatus(err)
    [] op = "RetryJob"  -> retryJobStatus(err)

\* what a call returned: the service's result, the status code the handler
\* answered with, and the Publish calls the service made
Recorded(r, calls) ==
  [op |-> r.op, req |-> r.req, job |-> r.job, err |-> r.err,
   code |-> HandlerStatus(r.op, r.err), calls |-> calls]

Reply(c, r, calls) ==
  /\ resp' = IF env.record THEN [resp EXCEPT ![c] = Recorded(r, calls)] ELSE resp
  /\ cpub' = [cpub EXCEPT ![c] = <<>>]
  /\ cpc' = [cpc EXCEPT ![c] = "idle"]
  /\ cjob' = [cjob EXCEPT ![c] = 0]
  /\ cread' = [cread EXCEPT ![c] = NilJob]

\* CreateJob with the two validations in the other order
ValidateTypeFirst(req) ==
  IF ~IsValidJobType(req.job_type) THEN ErrValidationJobType
  ELSE IF req.name = "" THEN ErrValidationName
  ELSE ErrNil

\* jobsService.CreateJob, "Validate request": the name first, then the job type
Validate(req) ==
  IF req.name = "" THEN ErrValidationName
  ELSE IF ~IsValidJobType(req.job_type) THEN ErrValidationJobType
  ELSE ErrNil

\* CreateJob failing the call when the publish fails
CreateJobReturnStrict(job, publishOk) ==
  IF publishOk THEN [job |-> job, err |-> ErrNil]
  ELSE [job |-> NilJob, err |-> "failed to publish job"]

\* jobsService.CreateJob after repo.Create: the publish error is logged and
\* dropped, the job is returned
CreateJobReturn(job, publishOk) == [job |-> job, err |-> ErrNil]

\* jobsService.CreateJob: validate, repo.Create, Publish to "jobs" (a publish
\* error is logged and swallowed), return the job
CreateJob(c) ==
  /\ c \in env.clients
  /\ cpc[c] = "idle"
  /\ UNCHANGED <<env, loopVars>>
  /\ \E req \in Requests, createOk \in BOOLEAN,
        publishOk \in PublishOutcomes(jobsTopic) :
       LET job == WithID(jobs, NewJob(req))
           ret == CreateJobReturn(job, publishOk)
       IN  IF Validate(req) # ErrNil
           THEN /\ Reply(c, Response("CreateJob", req, NilJob, Validate(req)), <<>>)
                /\ UNCHANGED <<jobs, topicVars, workerVars, raced>>
           ELSE IF ~createOk
           THEN /\ Reply(c, Response("CreateJob", req, NilJob, ErrCreateFailed), <<>>)
                /\ UNCHANGED <<jobs, topicVars, workerVars, raced>>
           ELSE /\ Len(jobs) < MaxJobs
                /\ jobs' = Create(jobs, NewJob(req))
                /\ jobsTopic' = Publish(jobsTopic, JobMessage(job), publishOk)
                /\ Reply(c, Response("CreateJob", req, ret.job, ret.err),
                         <<PublishCall(TopicJobs, JobMessage(job))>>)
                /\ UNCHANGED <<cancelTopic, dlqTopic, workerVars, raced>>

\* the first half of CreateJob with the error of repo.Create ignored
CreateStoreUnchecked(c) ==
  /\ c \in env.clients
  /\ cpc[c] = "idle"
  /\ UNCHANGED <<env, loopVars>>
  /\ \E req \in Requests, createOk \in BOOLEAN :
       IF Validate(req) # ErrNil
       THEN /\ Reply(c, Response("CreateJob", req, NilJob, Validate(req)), <<>>)
            /\ UNCHANGED jobs
       ELSE /\ Len(jobs) < MaxJobs
            /\ jobs' = IF createOk THEN Create(jobs, NewJob(req)) ELSE jobs
            /\ cpc' = [cpc EXCEPT ![c] = "createPublish"]
            /\ cjob' = [cjob EXCEPT ![c] = NewObjectID(jobs)]
            /\ cread' = [cread EXCEPT ![c] = WithID(jobs, NewJob(req))]
            /\ UNCHANGED <<cpub, resp>>
  /\ UNCHANGED <<topicVars, workerVars, raced>>

\* jobsService.CreateJob at the grain of its two calls.  First half: validate
\* and repo.Create; the job is stored before anything is published.
CreateStore(c) ==
  /\ c \in env.clients
  /\ cpc[c] = "idle"
  /\ UNCHANGED <<env, loopVars>>
  /\ \E req \in Requests, createOk \in BOOLEAN :
       IF Validate(req) # ErrNil
       THEN /\ Reply(c, Response("CreateJob", req, NilJob, Validate(req)), <<>>)
            /\ UNCHANGED jobs
       ELSE IF ~createOk
       THEN /\ cpc' = [cpc EXCEPT ![c] = "createFailed"]
            /\ cread' = [cread EXCEPT ![c] = NewJob(req)]
            /\ UNCHANGED <<jobs, cjob, cpub, resp>>
       ELSE /\ Len(jobs) < MaxJobs
            /\ jobs' = Create(jobs, NewJob(req))
            /\ cpc' = [cpc EXCEPT ![c] = "createPublish"]
            /\ cjob' = [cjob EXCEPT ![c] = NewObjectID(jobs)]
            /\ cread' = [cread EXCEPT ![c] = WithID(jobs, NewJob(req))]
            /\ UNCHANGED <<cpub, resp>>
  /\ UNCHANGED <<topicVars, workerVars, raced>>

\* repo.Create returned an error: CreateJob returns it wrapped, nothing is published
CreateFailed(c) ==
  /\ c \in env.clients
  /\ cpc[c] = "createFailed"
  /\ Reply(c, Response("CreateJob", [name |-> cread[c].name,
                                    job_type |-> cread[c].job_type,
                                    config |-> cread[c].config],
                       NilJob, ErrCreateFailed), <<>>)
  /\ UNCHANGED <<env, loopVars, jobs, topicVars, workerVars, raced>>

\* Second half: Publish to "jobs" (an error is logged and dropped), return the job
CreatePublish(c) ==
  /\ c \in env.clients
  /\ cpc[c] = "createPublish"
  /\ UNCHANGED <<env, loopVars>>
  /\ \E publishOk \in PublishOutcomes(jobsTopic) :
       LET job == cread[c]
           ret == CreateJobReturn(job, publishOk)
       IN  /\ jobsTopic' = Publish(jobsTopic, JobMessage(job), publishOk)
           /\ Reply(c, Response("CreateJob", [name |-> job.name, job_type |-> job.job_type,
                                             config |-> job.config], ret.job, ret.err),
                    <<PublishCall(TopicJobs, JobMessage(job))>>)
  /\ UNCHANGED <<jobs, cancelTopic, dlqTopic, workerVars, raced>>

IdRequest(id) == [id |-> id]

\* the ids callers ask for: of stored jobs, of no job, and not an object id
RequestIds == {Hex(id) : id \in 1..(MaxJobs + 1)} \cup {NotHex}

\* Handler.getJob -> jobsService.GetJob
getJob(c) ==
  /\ c \in env.clients
  /\ cpc[c] = "idle"
  /\ UNCHANGED <<env, loopVars>>
  /\ \E s \in RequestIds :
       Reply(c, Response("GetJob", IdRequest(s), GetJob(jobs, s).job, GetJob(jobs, s).err),
             <<>>)
  /\ UNCHANGED <<jobs, topicVars, workerVars, raced>>

\* CanBeCancelled refusing only the two final statuses of a finished job
CanBeCancelledUnlessDone(job) == job.status \notin {StatusCompleted, StatusCancelled}

\* Job.CanBeCancelled
CanBeCancelled(job) == job.status \in {StatusPending, StatusProcessing}

\* CanBeRetried with the limit compared inclusively
CanBeRetriedInclusive(job) ==
  job.status = StatusFailed /\ job.retry_count <= MaxRetries

\* Job.CanBeRetried
CanBeRetried(job) == job.status = StatusFailed /\ job.retry_count < MaxRetries

\* jobsService.CancelJob, steps 1-3: GetByID, not found, not cancellable
CancelRead(c) ==
  /\ c \in env.clients
  /\ cpc[c] = "idle"
  /\ UNCHANGED <<env, loopVars>>
  /\ \E id \in JobIds :
       LET job == GetByID(jobs, Hex(id)).job
       IN  IF job = NilJob
           THEN Reply(c, Response("CancelJob", IdRequest(id), NilJob, ErrJobNotFound),
                      <<>>)
           ELSE IF ~CanBeCancelled(job)
           THEN Reply(c, Response("CancelJob", IdRequest(id), NilJob, ErrInvalidJobState),
                      <<>>)
           ELSE /\ cpc' = [cpc EXCEPT ![c] = "cancelWrite"]
                /\ cjob' = [cjob EXCEPT ![c] = id]
                /\ UNCHANGED <<cread, cpub, resp>>
  /\ UNCHANGED <<jobs, topicVars, workerVars, raced>>

\* jobsService.CancelJob, steps 4-5: UpdateStatus(cancelling), Publish to
\* "job_cancellations"
CancelWrite(c) ==
  /\ c \in env.clients
  /\ cpc[c] = "cancelWrite"
  /\ UNCHANGED <<env, loopVars>>
  /\ \E publishOk \in CancellationOutcomes(cancelTopic) :
       /\ jobs' = UpdateStatus(jobs, cjob[c], StatusCancelling)
       /\ cancelTopic' = Publish(cancelTopic, CancellationMessage(cjob[c]), publishOk)
  /\ cpub' = [cpub EXCEPT ![c] =
                Append(@, PublishCall(TopicCancellations, CancellationMessage(cjob[c])))]
  /\ cpc' = [cpc EXCEPT ![c] = "cancelReturn"]
  /\ UNCHANGED <<jobsTopic, dlqTopic, workerVars, cjob, cread, resp, raced>>

\* jobsService.CancelJob, step 6: read the job again and return it
CancelReturn(c) ==
  /\ c \in env.clients
  /\ cpc[c] = "cancelReturn"
  /\ UNCHANGED <<env, loopVars>>
  /\ Reply(c, Response("CancelJob", IdRequest(cjob[c]),
                       GetByID(jobs, Hex(cjob[c])).job, ErrNil), cpub[c])
  /\ UNCHANGED <<jobs, topicVars, workerVars, raced>>

\* jobsService.RetryJob, steps 1-3: GetByID, not found, not failed, limit reached
RetryRead(c) ==
  /\ c \in env.clients
  /\ cpc[c] = "idle"
  /\ UNCHANGED <<env, loopVars>>
  /\ \E id \in JobIds :
       LET job == GetByID(jobs, Hex(id)).job
       IN  IF job = NilJob
           THEN Reply(c, Response("RetryJob", IdRequest(id), NilJob, ErrJobNotFound),
                      <<>>)
           ELSE IF job.status # StatusFailed
           THEN Reply(c, Response("RetryJob", IdRequest(id), NilJob, ErrInvalidJobState),
                      <<>>)
           ELSE IF ~CanBeRetried(job)
           THEN Reply(c, Response("RetryJob", IdRequest(id), NilJob, ErrMaxRetriesReached),
                      <<>>)
           ELSE /\ cpc' = [cpc EXCEPT ![c] = "retryWrite"]
                /\ cjob' = [cjob EXCEPT ![c] = id]
                /\ cread' = [cread EXCEPT ![c] = job]
                /\ UNCHANGED <<cpub, resp>>
  /\ UNCHANGED <<jobs, topicVars, workerVars, raced>>

\* the job RetryJob returns: the one it read, pending, with one more retry
Retried(job) ==
  [job EXCEPT !.status = StatusPending, !.retry_count = job.retry_count + 1]

\* jobsService.RetryJob, steps 4-7: UpdateStatusWithRetry(pending, retry_count + 1),
\* Publish the job to "jobs", return the updated job
RetryWrite(c) ==
  /\ c \in env.clients
  /\ cpc[c] = "retryWrite"
  /\ UNCHANGED <<env, loopVars>>
  /\ \E publishOk \in PublishOutcomes(jobsTopic) :
       /\ jobs' = UpdateStatusWithRetry(jobs, cjob[c], StatusPending,
                                        Retried(cread[c]).retry_count)
       /\ jobsTopic' = Publish(jobsTopic, JobMessage(cread[c]), publishOk)
  /\ raced' = [raced EXCEPT ![cjob[c]] = {}]
  /\ Reply(c, Response("RetryJob", IdRequest(cjob[c]), Retried(cread[c]), ErrNil),
           <<PublishCall(TopicJobs, JobMessage(cread[c]))>>)
  /\ UNCHANGED <<cancelTopic, dlqTopic, workerVars>>

\* -------------------------------------------------------------- the worker
\* consumeJobs + processJob up to the sleep: ReadMessage, decode, set the job to
\* processing
WorkerClaim(w) ==
  /\ wpc[w] = "idle"
  /\ proc.jobs[w] = "running"
  /\ ~Done(proc)
  /\ UNCHANGED <<env, proc>>
  /\ \E m \in BagToSet(jobsTopic), commit \in BOOLEAN :
       /\ jobsTopic' = Consume(jobsTopic, m, commit)
       /\ IF Unmarshal(m) # ErrNil
          THEN /\ lerr' = [lerr EXCEPT !.jobs[w] = LogUnmarshalJob]
               /\ UNCHANGED <<jobs, wjob, raced, wpc>>
          ELSE LET objectID == ObjectIDFromHex(m.job_id)
               IN  IF objectID.err # ErrNil
                   THEN /\ lerr' = [lerr EXCEPT !.jobs[w] = LogInvalidJobID]
                        /\ UNCHANGED <<jobs, wjob, raced, wpc>>
                   ELSE /\ jobs' = SetProcessing(jobs, objectID.oid)
                        /\ wjob' = [wjob EXCEPT ![w] = objectID.oid]
                        /\ raced' = [raced EXCEPT ![objectID.oid] = {}]
                        /\ wpc' = [wpc EXCEPT ![w] = "processing"]
                        /\ UNCHANGED lerr
  /\ UNCHANGED <<cancelTopic, dlqTopic, wrc, clientVars>>

\* processJob after the sleep: FindOne, skip a cancelling/cancelled job, draw the
\* simulated outcome (rand.Float32() < 0.2 fails)
WorkerCheck(w) ==
  /\ wpc[w] = "processing"
  /\ ~Done(proc)
  /\ UNCHANGED <<env, loopVars>>
  /\ LET job == FindOne(jobs, wjob[w])
     IN  IF job = NilJob \/ job.status \in {StatusCancelling, StatusCancelled}
         THEN /\ wpc' = [wpc EXCEPT ![w] = "idle"]
              /\ wjob' = [wjob EXCEPT ![w] = 0]
              /\ UNCHANGED wrc
         ELSE \E fails \in BOOLEAN :
              /\ wpc' = [wpc EXCEPT ![w] = IF fails THEN "failing" ELSE "completing"]
              /\ wrc' = [wrc EXCEPT ![w] = IF fails THEN job.retry_count ELSE 0]
              /\ UNCHANGED wjob
  /\ UNCHANGED <<jobs, topicVars, clientVars, raced>>

\* processJob, failure branch: set the job to failed with the error message
WorkerFail(w) ==
  /\ wpc[w] = "failing"
  /\ ~Done(proc)
  /\ UNCHANGED <<env, loopVars>>
  /\ jobs' = SetFailed(jobs, wjob[w], SimulatedFailure)
  /\ raced' = [raced EXCEPT ![wjob[w]] = @ \cup {"finalize"}]
  /\ wpc' = [wpc EXCEPT ![w] = "dlq"]
  /\ UNCHANGED <<topicVars, wjob, wrc, clientVars>>

\* the DLQ step with a compensation: a failed publish puts the job back to
\* processing
WorkerDLQReverting(w) ==
  /\ wpc[w] = "dlq"
  /\ UNCHANGED <<env, loopVars>>
  /\ \E publishOk \in PublishOutcomes(dlqTopic) :
       /\ dlqTopic' = Publish(dlqTopic, DLQMessage(wjob[w], SimulatedFailure, wrc[w]), publishOk)
       /\ jobs' = IF publishOk THEN jobs ELSE SetProcessing(jobs, wjob[w])
  /\ wpc' = [wpc EXCEPT ![w] = "idle"]
  /\ wjob' = [wjob EXCEPT ![w] = 0]
  /\ wrc' = [wrc EXCEPT ![w] = 0]
  /\ UNCHANGED <<jobsTopic, cancelTopic, clientVars, raced>>

\* processJob, failure branch: publish the DLQ message (the write's error is dropped)
WorkerDLQ(w) ==
  /\ wpc[w] = "dlq"
  /\ UNCHANGED <<env, loopVars>>
  /\ \E publishOk \in PublishOutcomes(dlqTopic) :
       dlqTopic' = Publish(dlqTopic, DLQMessage(wjob[w], SimulatedFailure, wrc[w]), publishOk)
  /\ wpc' = [wpc EXCEPT ![w] = "idle"]
  /\ wjob' = [wjob EXCEPT ![w] = 0]
  /\ wrc' = [wrc EXCEPT ![w] = 0]
  /\ UNCHANGED <<jobs, jobsTopic, cancelTopic, clientVars, raced>>

\* the completed write issued with a context of its own (context.Background())
WorkerCompleteDetached(w) ==
  /\ wpc[w] = "completing"
  /\ UNCHANGED <<env, loopVars>>
  /\ jobs' = SetCompleted(jobs, wjob[w])
  /\ raced' = [raced EXCEPT ![wjob[w]] = @ \cup {"finalize"}]
  /\ wpc' = [wpc EXCEPT ![w] = "idle"]
  /\ wjob' = [wjob EXCEPT ![w] = 0]
  /\ UNCHANGED <<topicVars, wrc, clientVars>>

\* processJob, success branch: set the job to completed
WorkerComplete(w) ==
  /\ wpc[w] = "completing"
  /\ ~Done(proc)
  /\ UNCHANGED <<env, loopVars>>
  /\ jobs' = SetCompleted(jobs, wjob[w])
  /\ raced' = [raced EXCEPT ![wjob[w]] = @ \cup {"finalize"}]
  /\ wpc' = [wpc EXCEPT ![w] = "idle"]
  /\ wjob' = [wjob EXCEPT ![w] = 0]
  /\ UNCHANGED <<topicVars, wrc, clientVars>>

\* consumeCancellations + processCancellation: ReadMessage, decode, the guarded
\* update to cancelled
ProcessCancellation ==
  /\ proc.cancellations = "running"
  /\ ~Done(proc)
  /\ UNCHANGED <<env, proc>>
  /\ \E m \in BagToSet(cancelTopic), commit \in BOOLEAN :
       /\ cancelTopic' = Consume(cancelTopic, m, commit)
       /\ IF Unmarshal(m) # ErrNil
          THEN /\ lerr' = [lerr EXCEPT !.cancellations = LogUnmarshalCancellation]
               /\ UNCHANGED <<jobs, raced>>
          ELSE LET objectID == ObjectIDFromHex(m.job_id)
               IN  /\ jobs' = processCancellation(jobs, m)
                   /\ raced' = IF ModifiedCount(jobs, jobs') > 0
                               THEN [raced EXCEPT ![objectID.oid] = @ \cup {"cancellation"}]
                               ELSE raced
                   /\ lerr' = IF objectID.err # ErrNil
                              THEN [lerr EXCEPT !.cancellations = LogInvalidCancellationID]
                              ELSE lerr
  /\ UNCHANGED <<jobsTopic, dlqTopic, workerVars, clientVars>>

\* every operation but CreateJob
NextRest ==
  \/ \E c \in Clients : getJob(c)
  \/ \E c \in Clients : CancelRead(c)
  \/ \E c \in Clients : CancelWrite(c)
  \/ \E c \in Clients : CancelReturn(c)
  \/ \E c \in Clients : RetryRead(c)
  \/ \E c \in Clients : RetryWrite(c)
  \/ \E w \in Workers : WorkerClaim(w)
  \/ \E w \in Workers : WorkerCheck(w)
  \/ \E w \in Workers : WorkerFail(w)
  \/ \E w \in Workers : WorkerDLQ(w)
  \/ \E w \in Workers : WorkerComplete(w)
  \/ ProcessCancellation

Next ==
  \/ \E c \in Clients : CreateJob(c)
  \/ NextRest

Spec == Init /\ [][Next]_vars

SpecApi == InitApi /\ [][Next]_vars

\* The job_cancellations topic is read as it comes: a message may name a job the
\* collection does not hold, or carry a job_id that is no object id
\* (processCancellation handles both).
StrayCancellations ==
  {[job_id |-> Hex(MaxJobs + 1), cancelled_at |-> Now],
   [job_id |-> NotHex, cancelled_at |-> Now]}

StrayCancellation ==
  /\ HasRoom(cancelTopic)
  /\ \E m \in StrayCancellations : cancelTopic' = Publish(cancelTopic, m, TRUE)
  /\ UNCHANGED <<env, jobs, jobsTopic, dlqTopic, workerVars, clientVars, raced, loopVars>>

NextOpen ==
  \/ Next
  \/ StrayCancellation

SpecOpen == Init /\ [][NextOpen]_vars

\* the worker process runs: each of its two consumer loops (goroutines started by
\* main) takes a step whenever it has one to take; callers are not obliged to call
WorkerFairness ==
  /\ \A w \in Workers :
       /\ WF_vars(WorkerClaim(w))
       /\ WF_vars(WorkerCheck(w))
       /\ WF_vars(WorkerFail(w))
       /\ WF_vars(WorkerDLQ(w))
       /\ WF_vars(WorkerComplete(w))
  /\ WF_vars(ProcessCancellation)

\* a call the service has begun runs to its return (the handler's goroutine is
\* scheduled); nothing obliges a caller to begin one
CallFairness ==
  \A c \in Clients :
    /\ WF_vars(CancelWrite(c))
    /\ WF_vars(CancelReturn(c))
    /\ WF_vars(RetryWrite(c))

SpecLive == Init /\ [][Next]_vars /\ WorkerFairness /\ CallFairness

\* concurrent callers, in a run in which every cancel request publishes its
\* cancellation message
InitProgress ==
  /\ env = [clients |-> Clients, record |-> FALSE, lossy |-> FALSE]
  /\ InitSystem

SpecProgress == InitProgress /\ [][Next]_vars /\ WorkerFairness /\ CallFairness

\* The jobs topic is read as it comes too: a work message may name a job the
\* collection does not hold.
StrayJobMessages ==
  {[job_id |-> Hex(MaxJobs + 1), name |-> "a", job_type |-> "analyze",
    config |-> "none"]}

StrayJobMessage ==
  /\ HasRoom(jobsTopic)
  /\ \E m \in StrayJobMessages : jobsTopic' = Publish(jobsTopic, m, TRUE)
  /\ UNCHANGED <<env, jobs, cancelTopic, dlqTopic, workerVars, clientVars, raced,
                 loopVars>>

NextStray ==
  \/ Next
  \/ StrayCancellation
  \/ StrayJobMessage

SpecStray == InitOne /\ [][NextStray]_vars

\* ------------------------------------------- CreateJob, call by call
NextSubmit ==
  \/ \E c \in Clients : CreateStore(c)
  \/ \E c \in Clients : CreateFailed(c)
  \/ \E c \in Clients : CreatePublish(c)
  \/ NextRest

SpecSubmit == Init /\ [][NextSubmit]_vars

\* --------------------------------------------- faults of the queue and store
\* The topics are read as they come: a value that is no JSON document, or a
\* work message whose job_id is no object id.
MalformedJobMessages ==
  {Undecodable,
   [job_id |-> NotHex, name |-> "a", job_type |-> "analyze", config |-> "none"]}

MalformedCancellations == {Undecodable, [job_id |-> NotHex, cancelled_at |-> Now]}

MalformedMessage ==
  /\ \/ /\ HasRoom(jobsTopic)
        /\ \E m \in MalformedJobMessages : jobsTopic' = Publish(jobsTopic, m, TRUE)
        /\ UNCHANGED cancelTopic
     \/ /\ HasRoom(cancelTopic)
        /\ \E m \in MalformedCancellations : cancelTopic' = Publish(cancelTopic, m, TRUE)
        /\ UNCHANGED jobsTopic
  /\ UNCHANGED <<env, jobs, dlqTopic, workerVars, clientVars, raced, loopVars>>

\* a read error that ends the loop
JobsReadErrorFatal(w) ==
  /\ wpc[w] = "idle"
  /\ proc.jobs[w] = "running"
  /\ ~Done(proc)
  /\ lerr' = [lerr EXCEPT !.jobs[w] = LogReadJob]
  /\ proc' = [proc EXCEPT !.jobs[w] = "exited"]
  /\ UNCHANGED <<env, jobs, topicVars, workerVars, clientVars, raced>>

\* consumeJobs: reader.ReadMessage returns an error while ctx is live; the loop
\* logs it and continues
JobsReadError(w) ==
  /\ wpc[w] = "idle"
  /\ proc.jobs[w] = "running"
  /\ ~Done(proc)
  /\ lerr' = [lerr EXCEPT !.jobs[w] = LogReadJob]
  /\ UNCHANGED <<env, jobs, topicVars, workerVars, clientVars, raced, proc>>

\* consumeCancellations: the same
CancellationsReadError ==
  /\ proc.cancellations = "running"
  /\ ~Done(proc)
  /\ lerr' = [lerr EXCEPT !.cancellations = LogReadCancellation]
  /\ UNCHANGED <<env, jobs, topicVars, workerVars, clientVars, raced, proc>>

\* processJob: a store call (FindOne, or the UpdateOne to failed or completed)
\* returns an error, a cancelled context included; processJob logs it and
\* returns without the write and without a DLQ message
WorkerStoreError(w) ==
  /\ wpc[w] \in {"processing", "failing", "completing"}
  /\ wpc' = [wpc EXCEPT ![w] = "idle"]
  /\ wjob' = [wjob EXCEPT ![w] = 0]
  /\ wrc' = [wrc EXCEPT ![w] = 0]
  /\ UNCHANGED <<env, jobs, topicVars, clientVars, raced, loopVars>>

NextFaulty ==
  \/ Next
  \/ MalformedMessage
  \/ \E w \in Workers : JobsReadError(w)
  \/ CancellationsReadError
  \/ \E w \in Workers : WorkerStoreError(w)

SpecFaulty == InitOne /\ [][NextFaulty]_vars

\* ------------------------------------------------------------------ shutdown
\* main: the signal arrives on quit; main calls cancel() and waits on wg
Signal ==
  /\ proc.main = "waiting"
  /\ proc' = [proc EXCEPT !.ctx = "cancelled", !.main = "stopping"]
  /\ UNCHANGED <<env, jobs, topicVars, workerVars, clientVars, raced, lerr>>

\* consumeJobs returns: at the top of its loop, or out of ReadMessage, with ctx done
JobsLoopExit(w) ==
  /\ wpc[w] = "idle"
  /\ proc.jobs[w] = "running"
  /\ Done(proc)
  /\ proc' = [proc EXCEPT !.jobs[w] = "exited"]
  /\ UNCHANGED <<env, jobs, topicVars, workerVars, clientVars, raced, lerr>>

\* consumeCancellations returns
CancellationsLoopExit ==
  /\ proc.cancellations = "running"
  /\ Done(proc)
  /\ proc' = [proc EXCEPT !.cancellations = "exited"]
  /\ UNCHANGED <<env, jobs, topicVars, workerVars, clientVars, raced, lerr>>

LoopsExited(p) ==
  /\ \A w \in Workers : p.jobs[w] = "exited"
  /\ p.cancellations = "exited"

\* processJob after cancel(): FindOne and UpdateOne are called with ctx and
\* return its error; processJob logs it and returns without the write
WorkerCtxError(w) ==
  /\ wpc[w] \in {"processing", "failing", "completing"}
  /\ Done(proc)
  /\ wpc' = [wpc EXCEPT ![w] = "idle"]
  /\ wjob' = [wjob EXCEPT ![w] = 0]
  /\ wrc' = [wrc EXCEPT ![w] = 0]
  /\ UNCHANGED <<env, jobs, topicVars, clientVars, raced, loopVars>>

\* wg.Wait() returns once both goroutines have called wg.Done()
MainStop ==
  /\ proc.main = "stopping"
  /\ LoopsExited(proc)
  /\ proc' = [proc EXCEPT !.main = "stopped"]
  /\ UNCHANGED <<env, jobs, topicVars, workerVars, clientVars, raced, lerr>>

NextStop ==
  \/ Next
  \/ Signal
  \/ \E w \in Workers : JobsLoopExit(w)
  \/ CancellationsLoopExit
  \/ MainStop
  \/ \E w \in Workers : WorkerCtxError(w)

\* the goroutines of the worker process are scheduled
StopFairness ==
  /\ \A w \in Workers : WF_vars(JobsLoopExit(w))
  /\ \A w \in Workers : WF_vars(WorkerCtxError(w))
  /\ WF_vars(CancellationsLoopExit)
  /\ WF_vars(MainStop)

SpecStop == InitOne /\ [][NextStop]_vars /\ WorkerFairness /\ StopFairness


\* =================================================================== claims
TerminalRaceStatuses == {StatusCompleted, StatusFailed, StatusCancelled}

\* C1: when the worker's finalize write and the cancellation consumer's write
\* race for one job, at most one of them modifies the job, and the write that
\* does leaves it completed, failed or cancelled.
C1_RaceAtMostOneWrite ==
  [][\A id \in DOMAIN jobs :
       (raced'[id] # raced[id] /\ raced'[id] # {}) =>
         /\ Cardinality(raced'[id]) <= 1
         /\ jobs'[id].status \in TerminalRaceStatuses]_vars

\* C2: once a job's stored status is completed or cancelled it never changes.
C2_CompletedCancelledTerminal ==
  [][\A id \in DOMAIN jobs :
       jobs[id].status \in {StatusCompleted, StatusCancelled} =>
         jobs'[id].status = jobs[id].status]_vars

\* the transition table of the job state machine
TableEdge(old, new) ==
  \/ old.status = StatusPending /\ new.status = StatusProcessing
  \/ old.status = StatusProcessing /\ new.status \in {StatusCompleted, StatusFailed}
  \/ old.status \in {StatusPending, StatusProcessing} /\ new.status = StatusCancelling
  \/ old.status \in CancellableStatuses /\ new.status = StatusCancelled
  \/ old.status = StatusFailed /\ old.retry_count < MaxRetries /\ new.status = StatusPending

\* C3: every change of a job's stored status is an edge of the transition table.
C3_OnlyTableEdges ==
  [][\A id \in DOMAIN jobs :
       jobs'[id].status # jobs[id].status => TableEdge(jobs[id], jobs'[id])]_vars

\* C4: a cancellation is never clobbered by a processing result: a job that is
\* cancelling or cancelled is never set to completed or failed.
C4_CancellationNotClobbered ==
  [][\A id \in DOMAIN jobs :
       jobs[id].status \in {StatusCancelling, StatusCancelled} =>
         jobs'[id].status \notin {StatusCompleted, StatusFailed}]_vars

\* C5: a work message for a job whose status is not pending is absorbed: the
\* worker's claim step modifies nothing.
C5_DuplicateClaimAbsorbed ==
  [][\A w \in Workers :
       (wpc[w] = "idle" /\ wpc'[w] = "processing" /\ Stored(jobs, wjob'[w])
        /\ jobs[wjob'[w]].status # StatusPending) => jobs' = jobs]_vars

\* C6: a failed job with retryCount 3 never changes status again, and a failed
\* job with retryCount < 3 leaves failed only to pending.
C6_FailedTerminalAtLimit ==
  [][\A id \in DOMAIN jobs :
       jobs[id].status = StatusFailed =>
         /\ jobs[id].retry_count = MaxRetries => jobs'[id].status = StatusFailed
         /\ jobs'[id].status \in {StatusFailed, StatusPending}]_vars

\* C7: every stored job has 0 <= retryCount <= 3, whatever the interleaving of
\* retries and worker failures.
C7_RetryCountInRange ==
  \A id \in DOMAIN jobs :
    jobs[id].retry_count >= 0 /\ jobs[id].retry_count <= MaxRetries

\* a retry of a job at the limit is still in flight: it read the job before
\* another retry took it to 3
C7_Witness ==
  \E id \in DOMAIN jobs, c \in env.clients :
    /\ jobs[id].retry_count = MaxRetries
    /\ cpc[c] = "retryWrite" /\ cjob[c] = id

C9_IdentityImmutable ==
  [][\A id \in DOMAIN jobs :
       /\ jobs'[id].id = jobs[id].id
       /\ jobs'[id].job_type = jobs[id].job_type
       /\ jobs'[id].name = jobs[id].name]_vars

\* a job that failed, was retried and was then cancelled by the consumer: every
\* kind of writer has written it
C9_Witness ==
  \E id \in DOMAIN jobs :
    /\ jobs[id].status = StatusCancelled
    /\ jobs[id].retry_count > 0
    /\ jobs[id].error_message = SimulatedFailure
    /\ jobs[id].name = "a" /\ jobs[id].job_type \in ValidJobTypes

ValidRequest(req) == req.name # "" /\ IsValidJobType(req.job_type)

CreatedAsRequested(r) ==
  /\ r.err = ErrNil
  /\ r.job.status = StatusPending
  /\ r.job.retry_count = 0
  /\ r.job.name = r.req.name
  /\ r.job.job_type = r.req.job_type
  /\ r.job.config = r.req.config

\* C10: CreateJob with a non-empty name and a valid jobType (and a store that
\* accepts the insert) returns, without error, a pending job with retryCount 0
\* carrying the request's name, jobType and config; GetJob with the returned id
\* returns exactly that job when CreateJob returns, and the job with that id,
\* name, jobType and config ever after.
C10_CreateThenGet ==
  /\ [](\A c \in Clients :
          (resp[c].op = "CreateJob" /\ ValidRequest(resp[c].req)
           /\ resp[c].err # ErrCreateFailed) =>
            /\ CreatedAsRequested(resp[c])
            /\ GetJob(jobs, Hex(resp[c].job.id)).err = ErrNil
            /\ GetJob(jobs, Hex(resp[c].job.id)).job.id = resp[c].job.id
            /\ GetJob(jobs, Hex(resp[c].job.id)).job.name = resp[c].req.name
            /\ GetJob(jobs, Hex(resp[c].job.id)).job.job_type = resp[c].req.job_type
            /\ GetJob(jobs, Hex(resp[c].job.id)).job.config = resp[c].req.config)
  /\ [][\A c \in Clients :
          (resp'[c] # resp[c] /\ resp'[c].op = "CreateJob" /\ resp'[c].err = ErrNil) =>
            GetJob(jobs', Hex(resp'[c].job.id)) = [job |-> resp'[c].job, err |-> ErrNil]]_vars

\* CreateJob returned a job for a valid request, and the worker has since
\* completed it: GetJob returns the job in another status
C10_Witness ==
  /\ resp[1].op = "CreateJob"
  /\ ValidRequest(resp[1].req)
  /\ resp[1].err = ErrNil
  /\ resp[1].job.job_type = "export"
  /\ GetJob(jobs, Hex(resp[1].job.id)).job.status = StatusCompleted

\* C11: CreateJob validates in order: an empty name is answered with the
\* validation error for field name, also when the job type is invalid too;
\* otherwise a job type outside {process, analyze, export} is answered with the
\* validation error for field job_type.  In both cases no job is stored and no
\* work message is published.
C11_ValidationInOrder ==
  /\ [](\A c \in Clients :
          resp[c].op = "CreateJob" =>
            /\ resp[c].req.name = "" => resp[c].err = ErrValidationName
            /\ (resp[c].req.name # "" /\ resp[c].req.job_type \notin ValidJobTypes)
                 => resp[c].err = ErrValidationJobType
            /\ resp[c].err \in ValidationErrors => resp[c].job = NilJob)
  /\ [][\A c \in Clients :
          (cpc[c] = "idle" /\ resp'[c] # resp[c] /\ resp'[c].op = "CreateJob"
           /\ ~ValidRequest(resp'[c].req)) =>
            jobs' = jobs /\ jobsTopic' = jobsTopic]_vars

\* a request with an empty name and an invalid job type was rejected while a
\* job is stored and its work message is queued
C11_Witness ==
  /\ resp[1].op = "CreateJob"
  /\ resp[1].req = CreateJobRequest("", "bogus", "cfg")
  /\ resp[1].err = ErrValidationName
  /\ Len(jobs) = 1
  /\ jobsTopic # EmptyBag

\* C12: when the insert of CreateJob succeeds and the publish of the work
\* message fails, CreateJob returns the created job without error, the job is
\* stored with status pending, and no job is ever removed from the store.
C12_PublishFailureNotFatal ==
  [][/\ \A id \in DOMAIN jobs : id \in DOMAIN jobs'
     /\ \A c \in Clients :
          (cpc[c] = "idle" /\ resp'[c] # resp[c] /\ resp'[c].op = "CreateJob"
           /\ ValidRequest(resp'[c].req) /\ resp'[c].err # ErrCreateFailed
           /\ jobsTopic' = jobsTopic) =>
            /\ resp'[c].err = ErrNil
            /\ Len(jobs') = Len(jobs) + 1
            /\ jobs'[Len(jobs')] = resp'[c].job
            /\ jobs'[Len(jobs')].status = StatusPending]_vars

\* CreateJob has returned a job whose work message was never published: the
\* job is pending, was never retried, and the jobs topic is empty
C12_Witness ==
  /\ resp[1].op = "CreateJob"
  /\ resp[1].err = ErrNil
  /\ Stored(jobs, resp[1].job.id)
  /\ jobs[resp[1].job.id].status = StatusPending
  /\ jobs[resp[1].job.id].retry_count = 0
  /\ jobsTopic = EmptyBag

\* C13: with the worker running, every job CreateJob stored as pending
\* eventually leaves pending (claimed by the worker, or cancelled), also when
\* the publish of its work message failed.
C13_PendingEventuallyLeaves ==
  \A id \in JobIds :
    (Stored(jobs, id) /\ jobs[id].status = StatusPending /\ jobs[id].retry_count = 0)
      ~> (Stored(jobs, id) /\ jobs[id].status # StatusPending)

\* C14: GetJob with an id that identifies no stored job returns ErrJobNotFound
\* (no job, no other error); with the id of a stored job it returns that job.
C14_GetJobNotFound ==
  [][\A c \in Clients :
       (cpc[c] = "idle" /\ resp'[c] # resp[c] /\ resp'[c].op = "GetJob") =>
         LET s == resp'[c].req.id
         IN  IF s.wellFormed /\ Stored(jobs, s.oid)
             THEN resp'[c].err = ErrNil /\ resp'[c].job = jobs[s.oid]
             ELSE resp'[c].err = ErrJobNotFound /\ resp'[c].job = NilJob]_vars

\* the one Publish call a successful CancelJob of job id makes
IsCancellationCall(call, id) ==
  /\ call.topic = TopicCancellations
  /\ call.message.job_id = Hex(id)
  /\ call.message.cancelled_at # ZeroTime

IsRetryCall(call, job) ==
  /\ call.topic = TopicJobs
  /\ call.message.job_id = Hex(job.id)
  /\ call.message.name = job.name
  /\ call.message.job_type = job.job_type
  /\ call.message.config = job.config

C20_CancellationWriteGuarded ==
  /\ [][/\ \A id \in DOMAIN jobs :
            (jobs'[id].status = StatusCancelled /\ jobs[id].status # StatusCancelled) =>
              /\ jobs[id].status \in {StatusPending, StatusProcessing, StatusCancelling}
              /\ jobs'[id] = [jobs[id] EXCEPT !.status = StatusCancelled]
        /\ \A m \in BagToSet(cancelTopic) :
            cancelTopic' = cancelTopic (-) SetToBag({m}) =>
              IF /\ m.job_id.wellFormed
                 /\ Stored(jobs, m.job_id.oid)
                 /\ jobs[m.job_id.oid].status
                      \in {StatusPending, StatusProcessing, StatusCancelling}
              THEN jobs' = [jobs EXCEPT ![m.job_id.oid].status = StatusCancelled]
              ELSE jobs' = jobs]_vars
  /\ [](cancelTopic # EmptyBag => ENABLED ProcessCancellation)

\* the consumer has cancelled a job and the job's cancellation message is still
\* on the topic (its offset was not committed): the next delivery finds the job
\* cancelled
C20_Witness ==
  \E id \in DOMAIN jobs :
    /\ jobs[id].status = StatusCancelled
    /\ "cancellation" \in raced[id]
    /\ BagIn(CancellationMessage(id), cancelTopic)

\* the cancellation messages a topic can hold: for each id a caller can name
CancellationMessages == {[job_id |-> s, cancelled_at |-> Now] : s \in RequestIds}

\* C21: handling a cancellation message is idempotent: from every state of the
\* store, handling the same message twice leaves the store as handling it once
\* does, and the handling of a message for a job that is already cancelled
\* modifies nothing.
C21_CancellationIdempotent ==
  /\ [](\A m \in CancellationMessages :
          /\ processCancellation(processCancellation(jobs, m), m)
               = processCancellation(jobs, m)
          /\ ModifiedCount(processCancellation(jobs, m),
                           processCancellation(processCancellation(jobs, m), m)) = 0)
  /\ [][\A m \in BagToSet(cancelTopic) :
          (cancelTopic' = cancelTopic (-) SetToBag({m})
           /\ m.job_id.wellFormed /\ Stored(jobs, m.job_id.oid)
           /\ jobs[m.job_id.oid].status = StatusCancelled) => jobs' = jobs]_vars

\* a job was cancelled by the consumer, the offset of its cancellation message
\* was not committed and the message is about to be handled a second time,
\* with the worker idle and no work message left
C21_Witness ==
  \E id \in DOMAIN jobs :
    /\ jobs[id].status = StatusCancelled
    /\ raced[id] = {"cancellation"}
    /\ BagIn(CancellationMessage(id), cancelTopic)
    /\ jobsTopic = EmptyBag
    /\ \A w \in Workers : wpc[w] = "idle"

\* C22: cancellation is asynchronous: a job's status becomes cancelled only in a
\* step of the cancellation consumer handling a cancellation message; CancelJob,
\* RetryJob, CreateJob and the job-processing path never set it.
C22_OnlyConsumerCancels ==
  [][(\E id \in DOMAIN jobs' :
        /\ jobs'[id].status = StatusCancelled
        /\ id \in DOMAIN jobs => jobs[id].status # StatusCancelled)
      => ProcessCancellation]_vars

\* the consumer has cancelled a job and committed the message; every call has
\* returned
C22_Witness ==
  \E id \in DOMAIN jobs :
    /\ jobs[id].status = StatusCancelled
    /\ raced[id] = {"cancellation"}
    /\ cancelTopic = EmptyBag
    /\ \A c \in Clients : cpc[c] = "idle"

IsTerminal(status) ==
  status = StatusCompleted \/ status = StatusFailed \/ status = StatusCancelled

\* C24: a status for which IsTerminal is true is never changed: once a job is
\* stored as completed, failed or cancelled, no step of the system (a retry or
\* a work message delivered late included) gives it another status.
C24_TerminalNeverChanges ==
  [][\A id \in DOMAIN jobs :
       IsTerminal(jobs[id].status) => jobs'[id].status = jobs[id].status]_vars

\* C27: errorMessage is written only together with the transition into failed:
\* a stored job's errorMessage changes only in the worker's step that sets the
\* job to failed, a new job is stored without one, and so every job with a
\* non-empty errorMessage has been failed before.
C27_ErrorMessageOnlyWithFailed ==
  [][/\ \A id \in DOMAIN jobs :
          jobs'[id].error_message # jobs[id].error_message =>
            /\ jobs'[id].status = StatusFailed
            /\ jobs'[id].error_message = SimulatedFailure
            /\ \E w \in Workers : WorkerFail(w)
     /\ \A id \in DOMAIN jobs' \ DOMAIN jobs : jobs'[id].error_message = ""]_vars

\* a job that failed, was retried and is being processed again: the writes of
\* pending and processing left its errorMessage in place
C27_Witness ==
  \E id \in DOMAIN jobs :
    /\ jobs[id].status = StatusProcessing
    /\ jobs[id].error_message = SimulatedFailure
    /\ jobs[id].retry_count > 0

\* C26: when the publish of the DLQ message fails, the worker neither retries
\* it nor reverts the store: the step that leaves the publish without a new DLQ
\* message changes no job (the job keeps failed and its errorMessage), that
\* step is always possible, and it returns the worker to its loop, where it
\* reads the next work message.
C26_DLQFailureIgnored ==
  /\ [][\A w \in Workers :
          (wpc[w] = "dlq" /\ wpc'[w] # "dlq" /\ dlqTopic' = dlqTopic) =>
            /\ jobs' = jobs
            /\ wpc'[w] = "idle"
            /\ UNCHANGED <<jobsTopic, cancelTopic>>]_vars
  /\ [](\A w \in Workers :
          wpc[w] = "dlq" => ENABLED (WorkerDLQ(w) /\ dlqTopic' = dlqTopic))
  /\ [](\A w \in Workers :
          (wpc[w] = "idle" /\ jobsTopic # EmptyBag) => ENABLED WorkerClaim(w))

\* a job failed, its DLQ publish failed (the DLQ topic is empty and nothing
\* reads it), and the worker is back in its loop handling the job's next work
\* message, published by a retry
C26_Witness ==
  \E w \in Workers :
    /\ wpc[w] = "processing"
    /\ dlqTopic = EmptyBag
    /\ Stored(jobs, wjob[w])
    /\ jobs[wjob[w]].error_message = SimulatedFailure
    /\ jobs[wjob[w]].retry_count = 1

\* C25: dead-letter ordering: a message is added to the jobs_dlq topic only by
\* a worker that has just written failed with the same error message for that
\* job (the step into the publish is the successful failed write), one message
\* at most per handled work message, and no step of a worker that completes,
\* skips a cancelled job or fails a store call publishes one.
C25_DLQAfterFailedWrite ==
  [][/\ dlqTopic' # dlqTopic =>
          \E w \in Workers :
            /\ wpc[w] = "dlq" /\ wpc'[w] = "idle"
            /\ dlqTopic' = dlqTopic (+)
                 SetToBag({DLQMessage(wjob[w], SimulatedFailure, wrc[w])})
            /\ jobs' = jobs
     /\ \A w \in Workers :
          (wpc'[w] = "dlq" /\ wpc[w] # "dlq") =>
            /\ wpc[w] = "failing"
            /\ wjob'[w] = wjob[w]
            /\ Stored(jobs', wjob[w])
            /\ jobs'[wjob[w]].status = StatusFailed
            /\ jobs'[wjob[w]].error_message = SimulatedFailure
     /\ \A w \in Workers :
          (wpc[w] # "dlq" /\ wpc'[w] # wpc[w]) => dlqTopic' = dlqTopic]_vars

\* a DLQ message is on the topic for a job stored as failed with that message
C25_Witness ==
  \E m \in BagToSet(dlqTopic) :
    /\ Stored(jobs, m.job_id)
    /\ jobs[m.job_id].status = StatusFailed
    /\ jobs[m.job_id].error_message = m.error_message
    /\ \A w \in Workers : wpc[w] = "idle"

\* a message value that is no JSON document, or whose job_id is no object id
IsMalformed(m) == m = Undecodable \/ m.job_id = NotHex

\* C28: a malformed message (undecodable, or with a job_id that is no object id)
\* on the work topic or the cancellation topic is dropped: the step that
\* handles it writes nothing to the store, publishes nothing and leaves the
\* worker in its loop, and both loops go on reading the next message.
C28_MalformedDropped ==
  /\ [][/\ \A m \in BagToSet(jobsTopic) :
            (IsMalformed(m) /\ jobsTopic' = jobsTopic (-) SetToBag({m})) =>
              UNCHANGED <<jobs, cancelTopic, dlqTopic, workerVars, proc>>
        /\ \A m \in BagToSet(cancelTopic) :
            (IsMalformed(m) /\ cancelTopic' = cancelTopic (-) SetToBag({m})) =>
              UNCHANGED <<jobs, jobsTopic, dlqTopic, workerVars, proc>>
        /\ (\E w \in Workers :
              /\ lerr'.jobs[w] # lerr.jobs[w]
              /\ lerr'.jobs[w] \in {LogUnmarshalJob, LogInvalidJobID}) =>
             UNCHANGED <<jobs, dlqTopic, workerVars, proc>>
        /\ (/\ lerr'.cancellations # lerr.cancellations
            /\ lerr'.cancellations
                 \in {LogUnmarshalCancellation, LogInvalidCancellationID}) =>
             UNCHANGED <<jobs, dlqTopic, workerVars, proc>>]_vars
  /\ [](\A w \in Workers :
          (wpc[w] = "idle" /\ \E m \in BagToSet(jobsTopic) : ~IsMalformed(m)) =>
            ENABLED (WorkerClaim(w) /\ wpc'[w] = "processing"))
  /\ [](cancelTopic # EmptyBag => ENABLED ProcessCancellation)

\* the work loop dropped a message with a bad job_id and is now handling a
\* valid one; the cancellation loop dropped an undecodable message
C28_Witness ==
  \E w \in Workers :
    /\ lerr.jobs[w] = LogInvalidJobID
    /\ wpc[w] = "processing"
    /\ lerr.cancellations = LogUnmarshalCancellation
    /\ dlqTopic = EmptyBag

\* C29: a read error from the queue while no shutdown is requested does not end
\* a consumer loop: the failed read changes nothing but the log, both loops
\* keep running, and a valid message that is waiting is still handled.
C29_ReadErrorNotFatal ==
  /\ [][/\ (\E w \in Workers :
              lerr'.jobs[w] = LogReadJob /\ lerr.jobs[w] # LogReadJob) =>
             UNCHANGED <<jobs, topicVars, workerVars, proc>>
        /\ (lerr'.cancellations = LogReadCancellation
            /\ lerr.cancellations # LogReadCancellation) =>
             UNCHANGED <<jobs, topicVars, workerVars, proc>>]_vars
  /\ [](~Done(proc) =>
          /\ \A w \in Workers : proc.jobs[w] = "running"
          /\ proc.cancellations = "running")
  /\ [](\A w \in Workers :
          (/\ lerr.jobs[w] = LogReadJob /\ wpc[w] = "idle"
           /\ \E m \in BagToSet(jobsTopic) : ~IsMalformed(m)) =>
            ENABLED (WorkerClaim(w) /\ wpc'[w] = "processing"))
  /\ []((lerr.cancellations = LogReadCancellation /\ cancelTopic # EmptyBag) =>
          ENABLED ProcessCancellation)

\* the work loop saw a failed read and is now handling a valid message; the
\* cancellation loop saw a failed read and a cancellation is waiting
C29_Witness ==
  \E w \in Workers :
    /\ lerr.jobs[w] = LogReadJob
    /\ wpc[w] = "processing"
    /\ lerr.cancellations = LogReadCancellation
    /\ \E id \in DOMAIN jobs : BagIn(CancellationMessage(id), cancelTopic)

\* C30: cooperative shutdown terminates: once the context is cancelled, the
\* work loop and the cancellation loop both exit and main's wait on them
\* returns, wherever each loop stood when the signal came (idle, reading the
\* queue, or in the middle of handling a message).
C30_ShutdownTerminates ==
  (proc.ctx = "cancelled") ~> (LoopsExited(proc) /\ proc.main = "stopped")

\* the worker process has stopped and a job it was handling when the signal
\* came is left as processing
C30_Witness ==
  /\ proc.main = "stopped"
  /\ LoopsExited(proc)
  /\ \E id \in DOMAIN jobs : jobs[id].status = StatusProcessing

\* C31: a job in flight when the stop signal is raised is left as it is by the
\* worker: once the context is cancelled, a step of the job-processing path
\* that has not yet done its final write changes no job and no topic (it
\* writes neither completed nor failed and publishes nothing).
C31_InFlightLeftProcessing ==
  [][\A w \in Workers :
       (/\ proc.ctx = "cancelled"
        /\ wpc[w] \in {"processing", "failing", "completing"}
        /\ wpc'[w] # wpc[w]) =>
         /\ jobs' = jobs
         /\ UNCHANGED topicVars
         /\ wpc'[w] = "idle"]_vars

\* the worker has stopped with every topic empty and a job left as processing:
\* the job was in flight when the signal came
C31_Witness ==
  /\ proc.main = "stopped"
  /\ jobsTopic = EmptyBag /\ cancelTopic = EmptyBag /\ dlqTopic = EmptyBag
  /\ \A w \in Workers : wpc[w] = "idle"
  /\ \E id \in DOMAIN jobs :
       jobs[id].status = StatusProcessing /\ jobs[id].retry_count = 0

\* a step in which caller c's CreateJob publishes its work message
SubmitPublishes(c) ==
  /\ cpc[c] = "createPublish"
  /\ cpc'[c] # cpc[c]
  /\ jobsTopic' # jobsTopic

C33_OnlySubmitCreates ==
  [][/\ DOMAIN jobs \subseteq DOMAIN jobs'
     /\ DOMAIN jobs' # DOMAIN jobs => \E c \in Clients : CreateJob(c)
     /\ (\/ \E w \in Workers : wpc'[w] # wpc[w]
         \/ cancelTopic' # cancelTopic
         \/ lerr' # lerr) => DOMAIN jobs' = DOMAIN jobs]_vars

\* the worker has claimed a work message whose job is not stored, after a
\* job was created, and no record has appeared for it
C33_Witness ==
  \E w \in Workers :
    /\ wpc[w] = "processing"
    /\ ~Stored(jobs, wjob[w])
    /\ DOMAIN jobs # {}

\* ------------------------------------------------------------- the listing
MaxListed == 3
MaxTime == 3

ErrListFailed == "failed to list jobs"
ErrNegativeSkip == "skip value must be non-negative"
ErrStore == "server selection error"
ErrAtoi == "strconv.Atoi: invalid syntax"

Minimum(a, b) == IF a < b THEN a ELSE b

\* the orders in which a find sorted on created_at, newest first, may return the
\* documents: the server leaves the order of documents of one created_at open
SortedNewestFirst(coll) ==
  {ord \in [DOMAIN coll -> DOMAIN coll] :
     /\ \A i, j \in DOMAIN coll : i # j => ord[i] # ord[j]
     /\ \A i, j \in DOMAIN coll :
          i < j => coll[ord[i]].created_at >= coll[ord[j]].created_at}

\* options.Find().SetSkip(n): the cursor starts after the first n documents
Skip(docs, n) == SubSeq(docs, n + 1, Len(docs))

\* options.Find().SetLimit(n): at most n documents; 0 is no limit, and a
\* negative n asks for at most -n
Limit(docs, n) ==
  IF n = 0 THEN docs
  ELSE SubSeq(docs, 1, Minimum(IF n < 0 THEN 0 - n ELSE n, Len(docs)))

\* collection.CountDocuments with the empty filter
CountDocuments(coll) == Len(coll)

ListResult(found, total, err) == [jobs |-> found, total |-> total, err |-> err]

\* List skipping page * limit documents
ListSkippingPage(coll, page, limit, ord, ok) ==
  IF ~ok \/ page * limit < 0
  THEN ListResult(<<>>, 0, IF ok THEN ErrNegativeSkip ELSE ErrStore)
  ELSE ListResult(Limit(Skip([k \in DOMAIN coll |-> coll[ord[k]]], page * limit), limit),
                  CountDocuments(coll), ErrNil)

\* jobsRepository.List: the count of the collection, and the find over it with
\* skip, limit and sort; ord is the order the server returned the sorted
\* documents in, ok whether the store answered
List(coll, page, limit, ord, ok) ==
  IF ~ok \/ (page - 1) * limit < 0
  THEN ListResult(<<>>, 0, IF ok THEN ErrNegativeSkip ELSE ErrStore)
  ELSE ListResult(Limit(Skip([k \in DOMAIN coll |-> coll[ord[k]]], (page - 1) * limit), limit),
                  CountDocuments(coll), ErrNil)

JobFilter(page, limit) == [page |-> page, limit |-> limit]

\* the filter with a limit above 100 brought down to 100
NormaliseClamping(filter) ==
  JobFilter(IF filter.page < 1 THEN 1 ELSE filter.page,
            IF filter.limit < 1 THEN 10
            ELSE IF filter.limit > 100 THEN 100 ELSE filter.limit)

\* jobsService.ListJobs, its first lines: the filter it hands to the repository
Normalise(filter) ==
  JobFilter(IF filter.page < 1 THEN 1 ELSE filter.page,
            IF filter.limit < 1 \/ filter.limit > 100 THEN 10 ELSE filter.limit)

\* jobsService.ListJobs: what it returns, and the call of repo.List it made
ListJobsReturn(coll, filter, ord, ok) ==
  LET f == Normalise(filter)
      r == List(coll, f.page, f.limit, ord, ok)
  IN  [jobs |-> r.jobs, total |-> r.total,
       err |-> IF r.err # ErrNil THEN ErrListFailed ELSE ErrNil,
       calls |-> <<f>>]

\* a query value is the string of its characters
Digits == <<"0", "1", "2", "3", "4", "5", "6", "7", "8", "9">>

DigitValue(ch) == (CHOOSE d \in DOMAIN Digits : Digits[d] = ch) - 1

RECURSIVE ParseDigits(_)
ParseDigits(s) ==
  IF s = <<>> THEN 0
  ELSE ParseDigits(SubSeq(s, 1, Len(s) - 1)) * 10 + DigitValue(s[Len(s)])

\* strconv.Atoi: an optional sign and decimal digits; anything else is 0 and
\* an error
Atoi(s) ==
  LET signed == s # <<>> /\ s[1] \in {"-", "+"}
      body == IF signed THEN Tail(s) ELSE s
  IN  IF body = <<>> \/ \E i \in DOMAIN body : \A d \in DOMAIN Digits : Digits[d] # body[i]
      THEN [n |-> 0, err |-> ErrAtoi]
      ELSE [n |-> IF signed /\ s[1] = "-" THEN 0 - ParseDigits(body) ELSE ParseDigits(body),
            err |-> ErrNil]

\* the values of the page and limit query parameters; <<>> is a parameter the
\* request does not carry (Query().Get answers "")
QueryValues ==
  {<<>>, <<"x">>, <<"-", "1">>, <<"1">>, <<"2">>, <<"1", "0", "1">>}

\* Handler.listJobs, its first lines: the filter it builds from the query
listJobsFilter(query) ==
  JobFilter(IF Atoi(query.page).n < 1 THEN 1 ELSE Atoi(query.page).n,
            IF Atoi(query.limit).n < 1 \/ Atoi(query.limit).n > 100
            THEN 10 ELSE Atoi(query.limit).n)

listJobsStatus(err) == IF err = ErrNil THEN StatusOK ELSE StatusInternalServerError

\* what a listing answers: the jobs and the total, the page and limit the
\* handler echoes, and in calls the arguments of the one call of repo.List
Listing(op, req, r, filter) ==
  [op |-> op, req |-> req, job |-> r.jobs, err |-> r.err, total |-> r.total,
   page |-> filter.page, limit |-> filter.limit,
   code |-> listJobsStatus(r.err), calls |-> r.calls]

\* jobsService.ListJobs, called with any filter
ListJobs(c) ==
  /\ c \in env.clients
  /\ cpc[c] = "idle"
  /\ \E filter \in [page : 0..MaxListed, limit : {0, 1, 2, 100, 101}],
        ord \in SortedNewestFirst(jobs), ok \in BOOLEAN :
       resp' = [resp EXCEPT ![c] =
                  Listing("ListJobs", filter, ListJobsReturn(jobs, filter, ord, ok), filter)]
  /\ UNCHANGED <<env, loopVars, jobs, topicVars, workerVars, raced, cpc, cjob, cread, cpub>>

\* Handler.listJobs -> jobsService.ListJobs
listJobs(c) ==
  /\ c \in env.clients
  /\ cpc[c] = "idle"
  /\ \E query \in [page : QueryValues, limit : QueryValues],
        ord \in SortedNewestFirst(jobs), ok \in BOOLEAN :
       resp' = [resp EXCEPT ![c] =
                  Listing("listJobs", query,
                          ListJobsReturn(jobs, listJobsFilter(query), ord, ok),
                          listJobsFilter(query))]
  /\ UNCHANGED <<env, loopVars, jobs, topicVars, workerVars, raced, cpc, cjob, cread, cpub>>

\* the jobs of a collection a listing starts from: created by CreateJob, one
\* after the other, at the times the clock showed
ListedJob(id, at) ==
  [NewJob(CreateJobRequest("a", "process", "cfg")) EXCEPT !.id = id, !.created_at = at]

ListedCollections ==
  UNION {{[id \in 1..n |-> ListedJob(id, at[id])] :
            at \in {t \in [1..n -> 1..MaxTime] : \A i, j \in 1..n : i < j => t[i] <= t[j]}} :
         n \in 0..MaxListed}

\* one caller of the listing over a collection that holds some jobs
InitList ==
  /\ env = [clients |-> {1}, record |-> TRUE, lossy |-> TRUE]
  /\ jobs \in ListedCollections
  /\ InitRest

NextList == \E c \in Clients : ListJobs(c) \/ listJobs(c)

SpecList == InitList /\ [][NextList]_vars

\* a listing a caller was answered without an error
IsListing(r) == r.op \in {"ListJobs", "listJobs"} /\ r.err = ErrNil

\* how many of the stored jobs were created after the instant at, and how many
\* at that instant or after it
Newer(coll, at) == Cardinality({i \in DOMAIN coll : coll[i].created_at > at})
NotOlder(coll, at) == Cardinality({i \in DOMAIN coll : coll[i].created_at >= at})

PageSize(n, p, l) ==
  IF n - (p - 1) * l <= 0 THEN 0 ELSE Minimum(l, n - (p - 1) * l)

\* C36: a listing for page p and limit l returns stored jobs, each once, newest
\* first; the k-th of them stands at position (p-1)*l + k of the stored jobs
\* ordered by createdAt descending; they are as many as that ordering has at
\* the positions (p-1)*l+1 .. p*l; and total is the number of stored jobs
\* whatever p and l are.
C36_ListPageOfNewestFirst ==
  \A c \in Clients :
    IsListing(resp[c]) =>
      LET found == resp[c].job
          p == resp[c].calls[1].page
          l == resp[c].calls[1].limit
      IN  /\ resp[c].total = Len(jobs)
          /\ Len(found) = PageSize(Len(jobs), p, l)
          /\ \A k \in DOMAIN found :
               /\ Stored(jobs, found[k].id) /\ jobs[found[k].id] = found[k]
               /\ Newer(jobs, found[k].created_at) < (p - 1) * l + k
               /\ NotOlder(jobs, found[k].created_at) >= (p - 1) * l + k
          /\ \A k, m \in DOMAIN found :
               /\ k # m => found[k].id # found[m].id
               /\ k < m => found[k].created_at >= found[m].created_at

\* the second page of two of three stored jobs, the first of them older than
\* the last: the page holds one job
C36_Witness ==
  \E c \in Clients :
    /\ IsListing(resp[c])
    /\ resp[c].calls[1] = JobFilter(2, 2)
    /\ Len(jobs) = MaxListed
    /\ jobs[1].created_at < jobs[MaxListed].created_at
    /\ Len(resp[c].job) = 1
    /\ resp[c].total = MaxListed

\* C37: ListJobs hands the repository a normalised filter: a page below 1 is
\* replaced by 1, a limit below 1 or above 100 by 10, and a page of at least 1
\* and a limit in 1..100 are handed on as they are; the handler hands the
\* service the filter it echoes, normalised the same way.
C37_FilterNormalised ==
  \A c \in Clients :
    /\ resp[c].op = "ListJobs" =>
         LET given == resp[c].req
             used == resp[c].calls[1]
         IN  /\ Len(resp[c].calls) = 1
             /\ given.page < 1 => used.page = 1
             /\ given.page >= 1 => used.page = given.page
             /\ (given.limit < 1 \/ given.limit > 100) => used.limit = 10
             /\ given.limit \in 1..100 => used.limit = given.limit
    /\ resp[c].op = "listJobs" =>
         /\ resp[c].calls = <<JobFilter(resp[c].page, resp[c].limit)>>
         /\ resp[c].page >= 1
         /\ resp[c].limit \in 1..100
         /\ Atoi(resp[c].req.limit).n > 100 => resp[c].limit = 10

\* a listing asked with a limit of 101 and answered with the limit 10 in use
C37_Witness ==
  \E c \in Clients :
    /\ resp[c].op = "ListJobs"
    /\ resp[c].err = ErrNil
    /\ resp[c].req.limit = 101
    /\ resp[c].req.page = 0
    /\ resp[c].calls = <<JobFilter(1, 10)>>

\* ---------------------------------------------------- the front-end's table
MaxShown == 2

\* json.Marshal of a models.Job: the fields under their json names, the id as
\* its hex string, config and errorMessage left out when empty
MarshalJSON(job) ==
  [id |-> Hex(job.id), name |-> job.name, jobType |-> job.job_type,
   status |-> job.status, retryCount |-> job.retry_count,
   createdAt |-> job.created_at]
    @@ (IF job.config = "none" THEN [f \in {} |-> ""] ELSE [config |-> job.config])
    @@ (IF job.error_message = "" THEN [f \in {} |-> ""]
        ELSE [errorMessage |-> job.error_message])

\* canBeRetried looking at the status alone
canBeRetriedWhateverCount(job) == job.status = "failed"

\* interfaces.ts canBeCancelled, canBeRetried: over the job as the API sent it
canBeCancelled(job) == job.status = "pending" \/ job.status = "processing"

canBeRetried(job) == job.status = "failed" /\ job.retryCount < 3

\* a row of the jobs table: the job and whether its two buttons are drawn
TableRow(job) ==
  [job |-> job, cancelButton |-> canBeCancelled(job), retryButton |-> canBeRetried(job)]

\* ListJobsTable: fetchJobs(page, ROWS_PER_PAGE) for the first page, and a row
\* for each job of the answer
FirstPageQuery == [page |-> <<"1">>, limit |-> <<"1", "0">>]

RenderJobs(c) ==
  /\ c \in env.clients
  /\ cpc[c] = "idle"
  /\ \E ord \in SortedNewestFirst(jobs), ok \in BOOLEAN :
       LET r == ListJobsReturn(jobs, listJobsFilter(FirstPageQuery), ord, ok)
       IN  resp' = [resp EXCEPT ![c] =
                      [op |-> "fetchJobs", req |-> FirstPageQuery, job |-> r.jobs,
                       err |-> r.err, code |-> listJobsStatus(r.err),
                       rows |-> [k \in DOMAIN r.jobs |-> TableRow(MarshalJSON(r.jobs[k]))]]]
  /\ UNCHANGED <<env, loopVars, jobs, topicVars, workerVars, raced, cpc, cjob, cread, cpub>>

\* the jobs the table may be shown: in any status, after any number of retries,
\* with an error message when failed
ShownJobs ==
  {[ListedJob(1, 1) EXCEPT !.status = s, !.retry_count = n,
                           !.error_message = IF s = StatusFailed THEN SimulatedFailure ELSE ""] :
     s \in JobStatuses, n \in 0..MaxRetries}

ShownCollections ==
  UNION {{[id \in 1..n |-> [pick[id] EXCEPT !.id = id]] : pick \in [1..n -> ShownJobs]} :
         n \in 0..MaxShown}

InitView ==
  /\ env = [clients |-> {1}, record |-> TRUE, lossy |-> TRUE]
  /\ jobs \in ShownCollections
  /\ InitRest

NextView == \E c \in Clients : RenderJobs(c)

SpecView == InitView /\ [][NextView]_vars

\* C34: CanBeCancelled is true of a job exactly when its status is pending or
\* processing, CanBeRetried exactly when its status is failed and its retry
\* count is below 3, and for every job the table shows, the front-end's
\* canBeCancelled and canBeRetried give the job as the API sent it the value the
\* back-end's predicates give the stored job.
C34_PredicatesAgree ==
  /\ \A id \in DOMAIN jobs :
       /\ CanBeCancelled(jobs[id]) <=> jobs[id].status \in {"pending", "processing"}
       /\ CanBeRetried(jobs[id]) <=> (jobs[id].status = "failed" /\ jobs[id].retry_count < 3)
  /\ \A c \in Clients :
       resp[c].op = "fetchJobs" =>
         /\ DOMAIN resp[c].rows = DOMAIN resp[c].job
         /\ \A k \in DOMAIN resp[c].rows :
              /\ resp[c].rows[k].cancelButton <=> CanBeCancelled(resp[c].job[k])
              /\ resp[c].rows[k].retryButton <=> CanBeRetried(resp[c].job[k])

\* the table shows a failed job that was retried three times, without a retry
\* button, next to a job that can be cancelled
C34_Witness ==
  \E c \in Clients :
    /\ resp[c].op = "fetchJobs"
    /\ \E k \in DOMAIN resp[c].rows :
         /\ resp[c].job[k].status = StatusFailed
         /\ resp[c].job[k].retry_count = MaxRetries
         /\ ~resp[c].rows[k].retryButton
         /\ ~resp[c].rows[k].cancelButton
    /\ \E k \in DOMAIN resp[c].rows :
         /\ resp[c].job[k].status = StatusProcessing
         /\ resp[c].rows[k].cancelButton

\* C35: with the worker and the cancellation consumer running, no store error
\* and every cancel request publishing its cancellation message, a job the
\* worker set to processing eventually is completed, failed or cancelled, and a
\* job that is cancelling does not stay cancelling.
C35_ClaimedJobFinishes ==
  \A id \in JobIds :
    /\ (Stored(jobs, id) /\ jobs[id].status = StatusProcessing)
         ~> (Stored(jobs, id) /\
               jobs[id].status \in {StatusCompleted, StatusFailed, StatusCancelled})
    /\ (Stored(jobs, id) /\ jobs[id].status = StatusCancelling)
         ~> (Stored(jobs, id) /\ jobs[id].status # StatusCancelling)

\* the worker is at work on a job it claimed, a cancel request has set the job
\* to cancelling and its cancellation message waits to be consumed
C35_Witness ==
  \E id \in JobIds, w \in Workers :
    /\ Stored(jobs, id)
    /\ jobs[id].status = StatusCancelling
    /\ wpc[w] = "processing"
    /\ wjob[w] = id
    /\ CancellationMessage(id) \in BagToSet(cancelTopic)
    /\ ~env.lossy

=============================================================================
